---- MODULE Spec2Model ----
(***************************************************************************)
(* Model of the authorization input pipeline of cedar_demo:                *)
(*   jwt::decode_jwt_without_validation / JWTDecoder::decode               *)
(*   AuthzInputRaw::decode_tokens, JWTData::entities and the per-token     *)
(*   entity constructors, Authz::handle_raw_input / Authz::handle.         *)
(*   Authz::new, json_to_expression and the stand-alone check().           *)
(* Texts (token strings, identity literals) are sequences of lexical       *)
(* chunks, JSON values are tagged records, so that splitting, parsing and  *)
(* schema matching are computed and can fail.                              *)
(***************************************************************************)
EXTENDS Integers, Sequences, FiniteSets, TLC

VARIABLES
    config,        \* the AuthzConfig handed to Authz::new
    app_name,      \* Authz.app_name : Option<String>
    jwt_dec,       \* Authz.jwt_dec  : JWTDecoder
    policy,        \* Authz.policy   : PolicySet
    entities,      \* Authz.entities : baseline Entities
    pc,            \* per call: position inside handle_raw_input / handle
    input,         \* per call: the raw input document
    frame,         \* per call: the local variables of handle
    result,        \* per call: what the call returned
    evalLog,       \* per call: arguments of every Authorizer::is_authorized invocation
    stageLog,      \* per call: the stages entered, in order
    created,       \* what Authz::new(config) returned, once it has run
    jwt,           \* decoder harness: the token string
    target,        \* decoder harness: the claim schema T of decode::<T>
    decoded,       \* decoder harness: the result of decode::<T>(jwt)
    extraValue,    \* conversion harness: the serde_json::Value of an extra claim
    userInum,      \* conversion harness: the user-id claim of the userinfo token
    converted,     \* conversion harness: the result of json_to_expression(value)
    userEntity,    \* conversion harness: the result of get_user_entity
    checkArgs,     \* check harness: the six texts handed to check()
    checkResult    \* check harness: the result of check()

vars == <<config, app_name, jwt_dec, policy, entities, pc, input, frame, result,
          evalLog, stageLog, created, jwt, target, decoded, extraValue, userInum, converted,
          userEntity, checkArgs, checkResult>>

authzVars == <<config, app_name, jwt_dec, policy, entities, pc, input, frame, result,
               evalLog, stageLog, created>>

decodeVars == <<jwt, target, decoded>>
convertVars == <<extraValue, userInum, converted, userEntity>>
checkVars == <<checkArgs, checkResult>>

harnessVars == <<decodeVars, convertVars, checkVars>>

-----------------------------------------------------------------------------
(* Bounds *)

MaxTokenLen == 4      \* chunks per token string in the decoder harness
NumCalls == 2         \* concurrent handle calls on one Authz instance
MaxArrayLen == 2      \* elements per JSON array in the conversion harness

-----------------------------------------------------------------------------
(* Option and Result *)

None == [some |-> FALSE]
Some(x) == [some |-> TRUE, v |-> x]

Ok(x) == [ok |-> TRUE, v |-> x]
Err(e) == [ok |-> FALSE, err |-> e]

-----------------------------------------------------------------------------
(* serde_json::Value *)

JNull == [kind |-> "null"]
JBool(b) == [kind |-> "bool", b |-> b]
\* an integer literal
JInt(n) == [kind |-> "num", m |-> n, e |-> 0, f |-> FALSE]
\* a literal with a fraction or an exponent (m * 10^e), which serde_json
\* reads as f64
JFloat(m, e) == [kind |-> "num", m |-> m, e |-> e, f |-> TRUE]
\* the integer literal 10000000000000000000: above i64::MAX, within u64
JU64 == [kind |-> "num", m |-> 1, e |-> 19, f |-> FALSE]
JStr(s) == [kind |-> "str", s |-> s]
JArr(a) == [kind |-> "arr", a |-> a]
JObj(o) == [kind |-> "obj", o |-> o]

IsStr(j) == j.kind = "str"
\* Number::as_i64 is Some
IsI64(j) == j.kind = "num" /\ ~j.f /\ j.e = 0
IsStrArr(j) == j.kind = "arr" /\ \A i \in 1..Len(j.a) : IsStr(j.a[i])
IsOptStr(j) == j.kind = "null" \/ IsStr(j)

Range(s) == {s[i] : i \in 1..Len(s)}

-----------------------------------------------------------------------------
(* Text: a string is a sequence of chunks.  Dot is the character '.', Txt  *)
(* is a run of characters that holds no '.' and is not JSON text (a base64 *)
(* header, payload or signature), Json(j) is the JSON text of value j      *)
(* written without a '.'.                                                  *)

Dot == [ck |-> "dot"]
Txt(s) == [ck |-> "txt", s |-> s]
Json(j) == [ck |-> "json", j |-> j]

\* str::split('.') : the segments between the dots, at least one
RECURSIVE Split(_)
Split(s) ==
    IF \A i \in 1..Len(s) : s[i] # Dot
    THEN <<s>>
    ELSE LET d == CHOOSE i \in 1..Len(s) :
                      s[i] = Dot /\ \A k \in 1..(i-1) : s[k] # Dot
         IN  <<SubSeq(s, 1, d - 1)>> \o Split(SubSeq(s, d + 1, Len(s)))

\* Iterator::nth(n), zero based
Nth(seq, n) == IF n + 1 <= Len(seq) THEN Some(seq[n + 1]) ELSE None

\* serde_json::from_str into serde_json::Value: the text must be exactly one
\* JSON value
ParseJson(text) ==
    IF Len(text) = 1 /\ text[1].ck = "json" THEN Ok(text[1].j) ELSE Err("syntax")

-----------------------------------------------------------------------------
(* Claim records: serde::Deserialize of IdToken, UserInfoToken, AccessToken *)

Targets == {"IdToken", "UserInfoToken", "AccessToken"}

RequiredStr(t) ==
    CASE t = "IdToken" -> {"jti", "iss", "aud", "sub"}
      [] t = "UserInfoToken" -> {"jti", "iss", "sub", "aud", "inum"}
      [] t = "AccessToken" -> {"jti", "iss", "aud", "client_id"}

RequiredI64(t) ==
    CASE t = "IdToken" -> {"iat", "exp"}
      [] t = "UserInfoToken" -> {}
      [] t = "AccessToken" -> {"exp", "iat"}

OptionalStr(t) == IF t = "IdToken" THEN {"acr", "azp"} ELSE {}

\* amr carries serde(default): it may be absent
DefaultStrSet(t) == IF t = "IdToken" THEN {"amr"} ELSE {}

RequiredStrSet(t) == IF t = "AccessToken" THEN {"scope"} ELSE {}

KnownFields(t) ==
    RequiredStr(t) \cup RequiredI64(t) \cup OptionalStr(t)
        \cup DefaultStrSet(t) \cup RequiredStrSet(t)

MatchesSchema(t, j) ==
    /\ j.kind = "obj"
    /\ \A k \in RequiredStr(t) : k \in DOMAIN j.o /\ IsStr(j.o[k])
    /\ \A k \in RequiredI64(t) : k \in DOMAIN j.o /\ IsI64(j.o[k])
    /\ \A k \in RequiredStrSet(t) : k \in DOMAIN j.o /\ IsStrArr(j.o[k])
    /\ \A k \in OptionalStr(t) : k \in DOMAIN j.o => IsOptStr(j.o[k])
    /\ \A k \in DefaultStrSet(t) : k \in DOMAIN j.o => IsStrArr(j.o[k])

\* the typed record: modelled fields by name, the rest in the flattened extra
Claims(t, j) ==
    [ty |-> t,
     str |-> [k \in RequiredStr(t) |-> j.o[k].s],
     int |-> [k \in RequiredI64(t) |-> j.o[k].m],
     opt |-> [k \in OptionalStr(t) |->
                 IF k \in DOMAIN j.o /\ IsStr(j.o[k]) THEN Some(j.o[k].s) ELSE None],
     set |-> [k \in DefaultStrSet(t) \cup RequiredStrSet(t) |->
                 IF k \in DOMAIN j.o THEN {x.s : x \in Range(j.o[k].a)} ELSE {}],
     extra |-> [k \in (DOMAIN j.o) \ KnownFields(t) |-> j.o[k]]]

\* serde_json::from_str::<T>
FromStr(t, text) ==
    LET p == ParseJson(text)
    IN  IF p.ok /\ MatchesSchema(t, p.v) THEN Ok(Claims(t, p.v)) ELSE Err("json")

-----------------------------------------------------------------------------
(* jwt crate *)

\* a decoder that takes the third segment (the signature) as the payload
decode_jwt_third_segment(t, token) ==
    LET payload == Nth(Split(token), 2)
    IN  IF ~payload.some
        THEN Err("MalformedJWT")
        ELSE LET r == FromStr(t, payload.v)
             IN  IF r.ok THEN r ELSE Err("UnableToParseBase64AsJson")

\* a decoder that takes the last segment as the payload
decode_jwt_last_segment(t, token) ==
    LET segs == Split(token)
    IN  IF Len(segs) < 2
        THEN Err("MalformedJWT")
        ELSE LET r == FromStr(t, segs[Len(segs)])
             IN  IF r.ok THEN r ELSE Err("UnableToParseBase64AsJson")

\* jwt.split('.').nth(1).ok_or(MalformedJWT)?, then serde_json::from_str
decode_jwt_without_validation(t, token) ==
    LET payload == Nth(Split(token), 1)
    IN  IF ~payload.some
        THEN Err("MalformedJWT")
        ELSE LET r == FromStr(t, payload.v)
             IN  IF r.ok THEN r ELSE Err("UnableToParseBase64AsJson")

\* JWTDecoder::decode: the validating strategy is todo!(), which panics
Panic == [ok |-> FALSE, err |-> "panic"]

JWTDecoder_decode(dec, t, token) ==
    IF dec = "WithValidation"
    THEN Panic
    ELSE decode_jwt_without_validation(t, token)

-----------------------------------------------------------------------------
(* cedar_policy::EntityUid *)

Uid(type, id) == [type |-> type, id |-> id]

\* strings that are not a Cedar name (empty, or holding a space)
NotAName == {"", "not a name"}

\* Name::from_normalized_str on the text of a JSON string: one identifier
ParseName(s) == IF s \in NotAName THEN Err("name") ELSE Ok(<<s>>)

\* The text of an identity literal is a sequence of lexemes
Ident(s) == [lx |-> "ident", s |-> s]
Sep == [lx |-> "sep"]
Quoted(s) == [lx |-> "quoted", s |-> s]

\* EntityUid::from_str: Ident (:: Ident)* :: "id"
EntityUid_from_str(text) ==
    LET n == Len(text)
    IN  IF /\ n >= 3
           /\ n % 2 = 1
           /\ text[n].lx = "quoted"
           /\ \A i \in 1..(n-1) :
                  IF i % 2 = 1 THEN text[i].lx = "ident" ELSE text[i].lx = "sep"
        THEN Ok(Uid([i \in 1..((n-1) \div 2) |-> text[2*i - 1].s], text[n].s))
        ELSE Err("parse")

\* serde TypeAndId { type, id }
IsTypeAndId(j) ==
    /\ j.kind = "obj"
    /\ DOMAIN j.o = {"type", "id"}
    /\ IsStr(j.o["type"])
    /\ IsStr(j.o["id"])

TypeAndId_into_euid(j) ==
    LET nm == ParseName(j.o["type"].s)
    IN  IF nm.ok THEN Ok(Uid(nm.v, j.o["id"].s)) ELSE Err("ParseEscape")

\* EntityUid::from_json: the untagged EntityUidJson, tried in order
\* { __expr }, { __entity: TypeAndId }, TypeAndId, anything else
EntityUid_from_json(j) ==
    IF j.kind = "obj" /\ "__expr" \in DOMAIN j.o /\ IsStr(j.o["__expr"])
    THEN Err("ExprTag")
    ELSE IF j.kind = "obj" /\ DOMAIN j.o = {"__entity"} /\ IsTypeAndId(j.o["__entity"])
    THEN TypeAndId_into_euid(j.o["__entity"])
    ELSE IF IsTypeAndId(j)
    THEN TypeAndId_into_euid(j)
    ELSE Err("ExpectedLiteralEntityRef")

\* serde_json::json!({ "__entity": { "type": type, "id": id } })
EntityJson(type, id) ==
    JObj([k \in {"__entity"} |->
            JObj([f \in {"type", "id"} |-> IF f = "type" THEN JStr(type) ELSE JStr(id)])])

-----------------------------------------------------------------------------
(* cedar_policy::RestrictedExpression and Entity *)

XBool(b) == [x |-> "bool", b |-> b]
XLong(n) == [x |-> "long", n |-> n]
XStr(s) == [x |-> "string", s |-> s]
XSet(elems) == [x |-> "set", elems |-> elems]
XEuid(uid) == [x |-> "euid", uid |-> uid]
\* decimal("<text>") where text is the digits of m with -e of them after the
\* point when e < 0, and the digits of m followed by e zeros, without a
\* point, when e >= 0
XDecimal(m, e) == [x |-> "decimal", m |-> m, e |-> e]

\* f64::to_string of m * 10^e: shortest form, trailing zeros of the fraction
\* are not printed and an integral value prints without a point
RECURSIVE F64ToString(_, _)
F64ToString(m, e) ==
    IF m = 0 THEN [m |-> 0, e |-> 0]
    ELSE IF m % 10 = 0 THEN F64ToString(m \div 10, e + 1)
    ELSE [m |-> m, e |-> e]

\* the decimal extension parses digits '.' 1 to 4 digits
DecimalParses(d) == d.e < 0 /\ d.e >= -4

RECURSIVE Evaluates(_)
Evaluates(expr) ==
    CASE expr.x = "decimal" -> DecimalParses(expr)
      [] expr.x = "set" -> \A el \in expr.elems : Evaluates(el)
      [] OTHER -> TRUE

\* Entity::new evaluates every attribute
Entity_new(uid, attrs, parents) ==
    IF \A k \in DOMAIN attrs : Evaluates(attrs[k])
    THEN Ok([uid |-> uid, attrs |-> attrs, parents |-> parents])
    ELSE Err("NewEntity")

\* a conversion that omits an array none of whose elements converts
RECURSIVE json_to_expression_omit_empty(_)
json_to_expression_omit_empty(value) ==
    CASE value.kind = "null" -> None
      [] value.kind = "bool" -> Some(XBool(value.b))
      [] value.kind = "num" ->
            IF IsI64(value)
            THEN Some(XLong(value.m))
            ELSE LET str == F64ToString(value.m, value.e)
                 IN  Some(XDecimal(str.m, str.e))
      [] value.kind = "str" -> Some(XStr(value.s))
      [] value.kind = "arr" ->
            LET kept == {y \in Range(value.a) : json_to_expression_omit_empty(y).some}
            IN  IF kept = {} THEN None
                ELSE Some(XSet({json_to_expression_omit_empty(el).v : el \in kept}))
      [] value.kind = "obj" -> None

\* json_to_expression: serde_json::Value -> Option<RestrictedExpression>
RECURSIVE json_to_expression(_)
json_to_expression(value) ==
    CASE value.kind = "null" -> None
      [] value.kind = "bool" -> Some(XBool(value.b))
      [] value.kind = "num" ->
            IF IsI64(value)
            THEN Some(XLong(value.m))
            ELSE LET str == F64ToString(value.m, value.e)
                 IN  Some(XDecimal(str.m, str.e))
      [] value.kind = "str" -> Some(XStr(value.s))
      [] value.kind = "arr" ->
            Some(XSet({json_to_expression(el).v :
                         el \in {y \in Range(value.a) : json_to_expression(y).some}}))
      [] value.kind = "obj" -> None

-----------------------------------------------------------------------------
(* Entity synthesis: types.rs *)

\* IdToken::get_token_entity
get_token_entity(tok) ==
    LET uid == EntityUid_from_json(EntityJson("IdToken", tok.str["jti"]))
    IN  IF ~uid.ok THEN Err("CreateFromJson")
        ELSE LET base == [k \in {"jti", "aud", "sub", "iat", "exp", "amr"} |->
                            CASE k = "jti" -> XStr(tok.str["jti"])
                              [] k = "aud" -> XStr(tok.str["aud"])
                              [] k = "sub" -> XStr(tok.str["sub"])
                              [] k = "iat" -> XLong(tok.int["iat"])
                              [] k = "exp" -> XLong(tok.int["exp"])
                              [] k = "amr" -> XSet({XStr(v) : v \in tok.set["amr"]})]
                 present == {k \in {"azp", "acr"} : tok.opt[k].some}
                 attrs == [k \in DOMAIN base \cup present |->
                             IF k \in present THEN XStr(tok.opt[k].v) ELSE base[k]]
             IN  Entity_new(uid.v, attrs, {})

\* UserInfoToken::get_user_entity(roles)
get_user_entity(tok, roles) ==
    LET identifier == "User"
        uid == EntityUid_from_json(EntityJson(identifier, tok.str["inum"]))
    IN  IF ~uid.ok THEN Err("CreateFromJson")
        ELSE LET kept == {k \in DOMAIN tok.extra : json_to_expression(tok.extra[k]).some}
                 attrs == [k \in {"sub"} \cup kept |->
                             IF k \in kept
                             THEN json_to_expression(tok.extra[k]).v
                             ELSE XStr(tok.str["sub"])]
                 parents == {e.uid : e \in roles}
             IN  Entity_new(uid.v, attrs, parents)

\* a Client built under the type tag of the Application
get_client_entity_as_application(tok) ==
    LET id == EntityUid_from_json(EntityJson("Application", tok.str["aud"]))
    IN  IF ~id.ok THEN Err("CreateFromJson")
        ELSE LET attrs == [k \in {"client_id", "iss"} |->
                             IF k = "client_id" THEN XStr(tok.str["client_id"])
                                                ELSE XStr(tok.str["iss"])]
             IN  Entity_new(id.v, attrs, {})

\* AccessToken::get_client_entity
get_client_entity(tok) ==
    LET id == EntityUid_from_json(EntityJson("Client", tok.str["aud"]))
    IN  IF ~id.ok THEN Err("CreateFromJson")
        ELSE LET attrs == [k \in {"client_id", "iss"} |->
                             IF k = "client_id" THEN XStr(tok.str["client_id"])
                                                ELSE XStr(tok.str["iss"])]
             IN  Entity_new(id.v, attrs, {})

\* an Application whose client attribute is built from the client_id claim
get_application_entity_by_client_id(tok, application_name, client_uid) ==
    LET id == EntityUid_from_json(EntityJson("Application", tok.str["aud"]))
    IN  IF ~id.ok THEN Err("CreateFromJson")
        ELSE LET attrs == [k \in {"name", "client"} |->
                             IF k = "name" THEN XStr(application_name)
                                           ELSE XEuid(Uid(<<"Client">>, tok.str["client_id"]))]
             IN  Entity_new(id.v, attrs, {})

\* AccessToken::get_application_entity(application_name, client_uid)
get_application_entity(tok, application_name, client_uid) ==
    LET id == EntityUid_from_json(EntityJson("Application", tok.str["aud"]))
    IN  IF ~id.ok THEN Err("CreateFromJson")
        ELSE LET attrs == [k \in {"name", "client"} |->
                             IF k = "name" THEN XStr(application_name)
                                           ELSE XEuid(client_uid)]
             IN  Entity_new(id.v, attrs, {})

-----------------------------------------------------------------------------
(* jwt_data_handler.rs *)

\* a panic on its way up through the callers
Unwind == Err(<<"panic">>)

\* a decode_tokens that tags every failure as an id-token failure
decode_tokens_one_tag(raw, decoder) ==
    LET id_token == JWTDecoder_decode(decoder, "IdToken", raw.id_token)
    IN  IF ~id_token.ok
        THEN IF id_token = Panic THEN Unwind ELSE Err(<<"IdToken", id_token.err>>)
        ELSE
    LET userinfo_token == JWTDecoder_decode(decoder, "UserInfoToken", raw.userinfo_token)
    IN  IF ~userinfo_token.ok
        THEN IF userinfo_token = Panic THEN Unwind
             ELSE Err(<<"IdToken", userinfo_token.err>>)
        ELSE
    LET access_token == JWTDecoder_decode(decoder, "AccessToken", raw.access_token)
    IN  IF ~access_token.ok
        THEN IF access_token = Panic THEN Unwind
             ELSE Err(<<"IdToken", access_token.err>>)
        ELSE Ok([jwt |-> [id_token |-> id_token.v,
                          userinfo_token |-> userinfo_token.v,
                          access_token |-> access_token.v],
                 chedar_params |-> [action |-> raw.action,
                                    resource |-> raw.resource,
                                    context |-> raw.context]])

\* AuthzInputRaw::decode_tokens: id token, userinfo token, access token, each
\* error mapped to its own DecodeTokensError variant; a panic unwinds
decode_tokens(raw, decoder) ==
    LET id_token == JWTDecoder_decode(decoder, "IdToken", raw.id_token)
    IN  IF ~id_token.ok
        THEN IF id_token = Panic THEN Unwind ELSE Err(<<"IdToken", id_token.err>>)
        ELSE
    LET userinfo_token == JWTDecoder_decode(decoder, "UserInfoToken", raw.userinfo_token)
    IN  IF ~userinfo_token.ok
        THEN IF userinfo_token = Panic THEN Unwind
             ELSE Err(<<"UserInfoToken", userinfo_token.err>>)
        ELSE
    LET access_token == JWTDecoder_decode(decoder, "AccessToken", raw.access_token)
    IN  IF ~access_token.ok
        THEN IF access_token = Panic THEN Unwind
             ELSE Err(<<"AccessToken", access_token.err>>)
        ELSE Ok([jwt |-> [id_token |-> id_token.v,
                          userinfo_token |-> userinfo_token.v,
                          access_token |-> access_token.v],
                 chedar_params |-> [action |-> raw.action,
                                    resource |-> raw.resource,
                                    context |-> raw.context]])

\* a JWTData::entities that takes the principal from the Client entity
JWTData_entities_client_principal(data, application_name) ==
    LET id_token_entity == get_token_entity(data.id_token)
    IN  IF ~id_token_entity.ok THEN Err(<<"IdTokenEntity", id_token_entity.err>>) ELSE
    LET user_entity == get_user_entity(data.userinfo_token, {})
    IN  IF ~user_entity.ok THEN Err(<<"UserEntity", user_entity.err>>) ELSE
    LET client_entity == get_client_entity(data.access_token)
    IN  IF ~client_entity.ok THEN Err(<<"AccessTokenEntity", client_entity.err>>) ELSE
    LET list == <<id_token_entity.v, user_entity.v, client_entity.v>>
    IN  IF application_name.some
        THEN LET application_entity ==
                     get_application_entity(data.access_token, application_name.v,
                                            client_entity.v.uid)
             IN  IF ~application_entity.ok
                 THEN Err(<<"ApplicationEntity", application_entity.err>>)
                 ELSE Ok([entities |-> Append(list, application_entity.v),
                          user_entity_uid |-> client_entity.v.uid])
        ELSE Ok([entities |-> list, user_entity_uid |-> client_entity.v.uid])

\* JWTData::entities(application_name)
JWTData_entities(data, application_name) ==
    LET id_token_entity == get_token_entity(data.id_token)
    IN  IF ~id_token_entity.ok THEN Err(<<"IdTokenEntity", id_token_entity.err>>) ELSE
    LET user_entity == get_user_entity(data.userinfo_token, {})
    IN  IF ~user_entity.ok THEN Err(<<"UserEntity", user_entity.err>>) ELSE
    LET user_entity_uid == user_entity.v.uid
        client_entity == get_client_entity(data.access_token)
    IN  IF ~client_entity.ok THEN Err(<<"AccessTokenEntity", client_entity.err>>) ELSE
    LET client_entity_uid == client_entity.v.uid
        list == <<id_token_entity.v, user_entity.v, client_entity.v>>
    IN  IF application_name.some
        THEN LET application_entity ==
                     get_application_entity(data.access_token, application_name.v,
                                            client_entity_uid)
             IN  IF ~application_entity.ok
                 THEN Err(<<"ApplicationEntity", application_entity.err>>)
                 ELSE Ok([entities |-> Append(list, application_entity.v),
                          user_entity_uid |-> user_entity_uid])
        ELSE Ok([entities |-> list, user_entity_uid |-> user_entity_uid])

-----------------------------------------------------------------------------
(* cedar_policy: Entities, Context, Request, Authorizer *)

Uids(ents) == {e.uid : e \in ents}

\* an add_entities that lets the added entity replace the one it collides with
RECURSIVE add_entities_overwrite(_, _)
add_entities_overwrite(ents, list) ==
    IF list = <<>> THEN Ok(ents)
    ELSE LET e == Head(list)
         IN  add_entities_overwrite({x \in ents : x.uid # e.uid} \cup {e}, Tail(list))

\* an add_entities that accepts a duplicate when it is structurally equal
RECURSIVE add_entities_equal_ok(_, _)
add_entities_equal_ok(ents, list) ==
    IF list = <<>> THEN Ok(ents)
    ELSE LET e == Head(list)
         IN  IF e.uid \in Uids(ents) /\ e \notin ents
             THEN Err("Duplicate")
             ELSE add_entities_equal_ok(ents \cup {e}, Tail(list))

\* Entities::add_entities(collection, None): inserts one by one, an occupied
\* uid is EntitiesError::Duplicate
RECURSIVE add_entities(_, _)
add_entities(ents, list) ==
    IF list = <<>> THEN Ok(ents)
    ELSE LET e == Head(list)
         IN  IF e.uid \in Uids(ents)
             THEN Err("Duplicate")
             ELSE add_entities(ents \cup {e}, Tail(list))

\* a JSON value the context model can hold: no null, no floating point
RECURSIVE ContextValue(_)
ContextValue(j) ==
    CASE j.kind = "null" -> FALSE
      [] j.kind = "num" -> IsI64(j)
      [] j.kind = "arr" -> \A i \in 1..Len(j.a) : ContextValue(j.a[i])
      [] j.kind = "obj" -> \A k \in DOMAIN j.o : ContextValue(j.o[k])
      [] OTHER -> TRUE

\* a from_json_value that turns a value that is not an object into the empty
\* context
Context_from_json_value_lenient(j) ==
    IF j.kind = "obj" /\ \A k \in DOMAIN j.o : ContextValue(j.o[k])
    THEN Ok(j.o)
    ELSE IF j.kind # "obj"
    THEN Ok([k \in {} |-> JNull])
    ELSE Err("ContextJsonError")

\* Context::from_json_value(json, None): the value must be a record
Context_from_json_value(j) ==
    IF j.kind = "obj" /\ \A k \in DOMAIN j.o : ContextValue(j.o[k])
    THEN Ok(j.o)
    ELSE Err("ContextJsonError")

\* Request::new(Some(principal), Some(action), Some(resource), context, None):
\* without a schema nothing is validated
Request_new(principal, action, resource, context) ==
    Ok([principal |-> principal, action |-> action,
        resource |-> resource, context |-> context])

\* A policy: effect(principal is T, action == A, resource) when { resource.attr }
Satisfied(p, request, ents) ==
    /\ request.principal.type = p.principal_is
    /\ request.action = p.action
    /\ \E e \in ents :
          /\ e.uid = request.resource
          /\ p.resource_attr \in DOMAIN e.attrs
          /\ e.attrs[p.resource_attr] = XBool(TRUE)

\* Authorizer::is_authorized: Allow when some permit is satisfied and no forbid
is_authorized(request, policies, ents) ==
    LET permits == {p \in policies : p.effect = "permit" /\ Satisfied(p, request, ents)}
        forbids == {p \in policies : p.effect = "forbid" /\ Satisfied(p, request, ents)}
    IN  IF forbids # {} THEN [decision |-> "Deny", reason |-> {p.id : p \in forbids}]
        ELSE IF permits # {} THEN [decision |-> "Allow", reason |-> {p.id : p \in permits}]
        ELSE [decision |-> "Deny", reason |-> {}]

-----------------------------------------------------------------------------
(* authz.rs *)

\* what one run of handle did: the value returned, the evaluator invocations
\* and the stages entered
Out(ret, evals, stages) == [ret |-> ret, evals |-> evals, stages |-> stages]

\* a handle that falls back to the empty context when the context is refused
handle_default_context(self, in) ==
    LET decoded_input == decode_tokens(in, self.jwt_dec)
        s1 == <<"decode_tokens">>
    IN  IF decoded_input = Unwind THEN Out(Unwind, <<>>, s1) ELSE
        IF ~decoded_input.ok
        THEN Out(Err(<<"DecodeTokens">> \o decoded_input.err), <<>>, s1) ELSE
    LET params == decoded_input.v.chedar_params
        action == EntityUid_from_str(params.action)
        s2 == Append(s1, "action")
    IN  IF ~action.ok THEN Out(Err(<<"Action">>), <<>>, s2) ELSE
    LET resource == EntityUid_from_json(params.resource)
        s3 == Append(s2, "resource")
    IN  IF ~resource.ok THEN Out(Err(<<"Resource", resource.err>>), <<>>, s3) ELSE
    LET jwt_entities == JWTData_entities(decoded_input.v.jwt, self.app_name)
        s4 == Append(s3, "entities")
    IN  IF ~jwt_entities.ok
        THEN Out(Err(<<"AuthzInputEntities">> \o jwt_entities.err), <<>>, s4) ELSE
    LET ents == add_entities(self.entities, jwt_entities.v.entities)
        s5 == Append(s4, "add_entities")
    IN  IF ~ents.ok THEN Out(Err(<<"AddEntities", ents.err>>), <<>>, s5) ELSE
    LET principal == jwt_entities.v.user_entity_uid
        context == IF Context_from_json_value(params.context).ok
                   THEN Context_from_json_value(params.context)
                   ELSE Ok([k \in {} |-> JNull])
        s6 == Append(s5, "context")
    IN  IF ~context.ok THEN Out(Err(<<"Context">>), <<>>, s6) ELSE
    LET request == Request_new(principal, action.v, resource.v, context.v)
        s7 == Append(s6, "request")
    IN  IF ~request.ok THEN Out(Err(<<"Request">>), <<>>, s7) ELSE
    LET decision == is_authorized(request.v, self.policy, ents.v)
    IN  Out(Ok(decision),
            <<[request |-> request.v, policy |-> self.policy, entities |-> ents.v]>>,
            Append(s7, "is_authorized"))

\* Authz::handle(&self, input)
handle(self, in) ==
    LET decoded_input == decode_tokens(in, self.jwt_dec)
        s1 == <<"decode_tokens">>
    IN  IF decoded_input = Unwind THEN Out(Unwind, <<>>, s1) ELSE
        IF ~decoded_input.ok
        THEN Out(Err(<<"DecodeTokens">> \o decoded_input.err), <<>>, s1) ELSE
    LET params == decoded_input.v.chedar_params
        action == EntityUid_from_str(params.action)
        s2 == Append(s1, "action")
    IN  IF ~action.ok THEN Out(Err(<<"Action">>), <<>>, s2) ELSE
    LET resource == EntityUid_from_json(params.resource)
        s3 == Append(s2, "resource")
    IN  IF ~resource.ok THEN Out(Err(<<"Resource", resource.err>>), <<>>, s3) ELSE
    LET jwt_entities == JWTData_entities(decoded_input.v.jwt, self.app_name)
        s4 == Append(s3, "entities")
    IN  IF ~jwt_entities.ok
        THEN Out(Err(<<"AuthzInputEntities">> \o jwt_entities.err), <<>>, s4) ELSE
    LET ents == add_entities(self.entities, jwt_entities.v.entities)
        s5 == Append(s4, "add_entities")
    IN  IF ~ents.ok THEN Out(Err(<<"AddEntities", ents.err>>), <<>>, s5) ELSE
    LET principal == jwt_entities.v.user_entity_uid
        context == Context_from_json_value(params.context)
        s6 == Append(s5, "context")
    IN  IF ~context.ok THEN Out(Err(<<"Context">>), <<>>, s6) ELSE
    LET request == Request_new(principal, action.v, resource.v, context.v)
        s7 == Append(s6, "request")
    IN  IF ~request.ok THEN Out(Err(<<"Request">>), <<>>, s7) ELSE
    LET decision == is_authorized(request.v, self.policy, ents.v)
    IN  Out(Ok(decision),
            <<[request |-> request.v, policy |-> self.policy, entities |-> ents.v]>>,
            Append(s7, "is_authorized"))

\* serde_json::from_str::<AuthzInputRaw>: the document must be JSON text
\* holding all six fields
InputFields == {"id_token", "userinfo_token", "access_token",
                "action", "resource", "context"}

AuthzInputRaw_from_str(data) ==
    IF data.json /\ InputFields \subseteq data.has
    THEN Ok(data.doc)
    ELSE Err("serde_json")

\* Authz::handle_raw_input(&self, data)
handle_raw_input(self, data) ==
    LET in == AuthzInputRaw_from_str(data)
    IN  IF ~in.ok
        THEN Out(Err(<<"InputJsonParse">>), <<>>, <<>>)
        ELSE handle(self, in.v)

-----------------------------------------------------------------------------
(* Authz::new *)

Policy(p) == [ck |-> "policy", p |-> p]

\* PolicySet::from_str: every clause of the text must be a policy; policies
\* are numbered in order of appearance
PolicySet_from_str(text) ==
    IF \A i \in 1..Len(text) : text[i].ck = "policy"
    THEN Ok({[id |-> i - 1] @@ text[i].p : i \in 1..Len(text)})
    ELSE Err("ParseErrors")

\* one entity of the entities document: { uid, attrs, parents }
IsEntityJson(j) ==
    /\ j.kind = "obj"
    /\ DOMAIN j.o = {"uid", "attrs", "parents"}
    /\ EntityUid_from_json(j.o["uid"]).ok
    /\ j.o["attrs"].kind = "obj"
    /\ \A k \in DOMAIN j.o["attrs"].o : j.o["attrs"].o[k].kind \in {"bool", "str"}
    /\ j.o["parents"].kind = "arr"
    /\ \A i \in 1..Len(j.o["parents"].a) : EntityUid_from_json(j.o["parents"].a[i]).ok

Entity_from_json(j) ==
    [uid |-> EntityUid_from_json(j.o["uid"]).v,
     attrs |-> [k \in DOMAIN j.o["attrs"].o |->
                  IF j.o["attrs"].o[k].kind = "bool"
                  THEN XBool(j.o["attrs"].o[k].b)
                  ELSE XStr(j.o["attrs"].o[k].s)],
     parents |-> {EntityUid_from_json(u).v : u \in Range(j.o["parents"].a)}]

\* Entities::from_json_str(text, None): a JSON array of entities with
\* pairwise distinct uids
Entities_from_json_str(text) ==
    LET p == ParseJson(text)
    IN  IF /\ p.ok
           /\ p.v.kind = "arr"
           /\ \A i \in 1..Len(p.v.a) : IsEntityJson(p.v.a[i])
           /\ \A i, k \in 1..Len(p.v.a) :
                  i # k => Entity_from_json(p.v.a[i]).uid # Entity_from_json(p.v.a[k]).uid
        THEN Ok({Entity_from_json(e) : e \in Range(p.v.a)})
        ELSE Err("EntitiesError")

\* a constructor that starts from an empty baseline when the entities
\* document does not parse
Authz_new_empty_baseline(cfg) ==
    LET policy_set == PolicySet_from_str(cfg.policies)
    IN  IF ~policy_set.ok THEN Err(<<"PolicySet">>) ELSE
    LET ents == Entities_from_json_str(cfg.default_entities_json)
    IN  Ok([app_name |-> cfg.app_name,
            jwt_dec |-> cfg.decoder,
            policy |-> policy_set.v,
            entities |-> IF ents.ok THEN ents.v ELSE {}])

\* Authz::new(config)
Authz_new(cfg) ==
    LET policy_set == PolicySet_from_str(cfg.policies)
    IN  IF ~policy_set.ok THEN Err(<<"PolicySet">>) ELSE
    LET ents == Entities_from_json_str(cfg.default_entities_json)
    IN  IF ~ents.ok THEN Err(<<"Entities">>) ELSE
        Ok([app_name |-> cfg.app_name,
            jwt_dec |-> cfg.decoder,
            policy |-> policy_set.v,
            entities |-> ents.v])

-----------------------------------------------------------------------------
(* check(): check_raw.rs *)

\* a check that reports a request no policy permits as an error
check_deny_is_error(args) ==
    LET principal == EntityUid_from_str(args.principal_str)
    IN  IF ~principal.ok THEN Err(<<"Principal">>) ELSE
    LET action == EntityUid_from_str(args.action_str)
    IN  IF ~action.ok THEN Err(<<"Action">>) ELSE
    LET resource == EntityUid_from_str(args.resource_str)
    IN  IF ~resource.ok THEN Err(<<"Resource">>) ELSE
    LET context_json_val == ParseJson(args.context_json_str)
    IN  IF ~context_json_val.ok THEN Err(<<"ContextJsonParse">>) ELSE
    LET context == Context_from_json_value(context_json_val.v)
    IN  IF ~context.ok THEN Err(<<"Context">>) ELSE
    LET request == Request_new(principal.v, action.v, resource.v, context.v)
    IN  IF ~request.ok THEN Err(<<"Request">>) ELSE
    LET policy_set == PolicySet_from_str(args.policies_str)
    IN  IF ~policy_set.ok THEN Err(<<"PolicySet">>) ELSE
    LET ents == Entities_from_json_str(args.entities_json_str)
    IN  IF ~ents.ok THEN Err(<<"Entities">>) ELSE
    LET decision == is_authorized(request.v, policy_set.v, ents.v)
    IN  IF decision.reason = {} THEN Err(<<"Request">>) ELSE Ok(decision)

\* a check that parses the policy set and the entities before the request
check_policies_first(args) ==
    LET policy_set == PolicySet_from_str(args.policies_str)
    IN  IF ~policy_set.ok THEN Err(<<"PolicySet">>) ELSE
    LET ents == Entities_from_json_str(args.entities_json_str)
    IN  IF ~ents.ok THEN Err(<<"Entities">>) ELSE
    LET principal == EntityUid_from_str(args.principal_str)
    IN  IF ~principal.ok THEN Err(<<"Principal">>) ELSE
    LET action == EntityUid_from_str(args.action_str)
    IN  IF ~action.ok THEN Err(<<"Action">>) ELSE
    LET resource == EntityUid_from_str(args.resource_str)
    IN  IF ~resource.ok THEN Err(<<"Resource">>) ELSE
    LET context_json_val == ParseJson(args.context_json_str)
    IN  IF ~context_json_val.ok THEN Err(<<"ContextJsonParse">>) ELSE
    LET context == Context_from_json_value(context_json_val.v)
    IN  IF ~context.ok THEN Err(<<"Context">>) ELSE
    LET request == Request_new(principal.v, action.v, resource.v, context.v)
    IN  IF ~request.ok THEN Err(<<"Request">>) ELSE
        Ok(is_authorized(request.v, policy_set.v, ents.v))

\* check(principal_str, action_str, resource_str, context_json_str,
\*       policies_str, entities_json_str)
check(args) ==
    LET principal == EntityUid_from_str(args.principal_str)
    IN  IF ~principal.ok THEN Err(<<"Principal">>) ELSE
    LET action == EntityUid_from_str(args.action_str)
    IN  IF ~action.ok THEN Err(<<"Action">>) ELSE
    LET resource == EntityUid_from_str(args.resource_str)
    IN  IF ~resource.ok THEN Err(<<"Resource">>) ELSE
    LET context_json_val == ParseJson(args.context_json_str)
    IN  IF ~context_json_val.ok THEN Err(<<"ContextJsonParse">>) ELSE
    LET context == Context_from_json_value(context_json_val.v)
    IN  IF ~context.ok THEN Err(<<"Context">>) ELSE
    LET request == Request_new(principal.v, action.v, resource.v, context.v)
    IN  IF ~request.ok THEN Err(<<"Request">>) ELSE
    LET policy_set == PolicySet_from_str(args.policies_str)
    IN  IF ~policy_set.ok THEN Err(<<"PolicySet">>) ELSE
    LET ents == Entities_from_json_str(args.entities_json_str)
    IN  IF ~ents.ok THEN Err(<<"Entities">>) ELSE
        Ok(is_authorized(request.v, policy_set.v, ents.v))

-----------------------------------------------------------------------------
(* The demo policy and baseline entities (cedar_files/) *)

ViewAction == Uid(<<"Action">>, "view")

\* permit(principal is User, action == Action::"view", resource)
\*   when { resource.public };
DemoPolicies ==
    <<Policy([effect |-> "permit", principal_is |-> <<"User">>,
              action |-> ViewAction, resource_attr |-> "public"])>>

TypeAndId(type, id) ==
    JObj([f \in {"type", "id"} |-> IF f = "type" THEN JStr(type) ELSE JStr(id)])

EntityDoc(type, id, attrs) ==
    JObj([f \in {"uid", "attrs", "parents"} |->
            CASE f = "uid" -> TypeAndId(type, id)
              [] f = "attrs" -> JObj(attrs)
              [] f = "parents" -> JArr(<<>>)])

FolderDocs ==
    <<EntityDoc("Folder", "public_folder_id_uuid", [k \in {"public"} |-> JBool(TRUE)]),
      EntityDoc("Folder", "private_folder_id_uuid", [k \in {"public"} |-> JBool(FALSE)])>>

DemoEntitiesJson == <<Json(JArr(FolderDocs))>>

\* the same baseline with a User "bob" in it
BobEntitiesJson ==
    <<Json(JArr(Append(FolderDocs, EntityDoc("User", "bob", [k \in {"sub"} |-> JStr("bob")]))))>>

Configs ==
    [app_name : {None, Some("Demo_App")},
     decoder : {"WithoutValidation", "WithValidation"},
     policies : {DemoPolicies},
     default_entities_json : {DemoEntitiesJson, BobEntitiesJson}]

-----------------------------------------------------------------------------
(* Inputs *)

Header == Txt("eyJhbGciOiJIUzI1NiJ9")
Signature == Txt("c2lnbmF0dXJl")
\* a payload as issuers send it: base64url text
Base64Payload == Txt("eyJqdGkiOiJ0MSJ9")

Token(payload) == <<Header, Dot, Json(payload), Dot, Signature>>

IdClaims ==
    JObj([k \in {"jti", "iss", "aud", "sub", "iat", "exp"} |->
            CASE k = "jti" -> JStr("t1")
              [] k = "iss" -> JStr("idp")
              [] k = "aud" -> JStr("app1")
              [] k = "sub" -> JStr("bob")
              [] k = "iat" -> JInt(1)
              [] k = "exp" -> JInt(2)])

UserInfoClaims(inum, extra) ==
    JObj([k \in {"jti", "iss", "sub", "aud", "inum"} \cup DOMAIN extra |->
            CASE k = "jti" -> JStr("u1")
              [] k = "iss" -> JStr("idp")
              [] k = "sub" -> JStr("bob")
              [] k = "aud" -> JStr("app1")
              [] k = "inum" -> JStr(inum)
              [] OTHER -> extra[k]])

AccessClaims(fields) ==
    JObj([k \in fields |->
            CASE k = "jti" -> JStr("a1")
              [] k = "iss" -> JStr("idp")
              [] k = "aud" -> JStr("app1")
              [] k = "scope" -> JArr(<<JStr("read")>>)
              [] k = "client_id" -> JStr("c1")
              [] k = "exp" -> JInt(2)
              [] k = "iat" -> JInt(1)])

AccessFields == {"jti", "iss", "aud", "scope", "client_id", "exp", "iat"}

NoExtra == [k \in {} |-> JNull]

IdTokens ==
    {Token(IdClaims),                         \* well formed
     <<Header>>,                              \* one segment
     <<Header, Dot, Base64Payload, Dot, Signature>>}   \* payload not JSON text

UserInfoTokens ==
    {Token(UserInfoClaims("Bob_user_id_uuid", NoExtra)),
     Token(UserInfoClaims("bob", NoExtra)),
     Token(UserInfoClaims("bob", [k \in {"role"} |-> JStr("admin")])),
     \* "score": 1e0 is a float that prints as "1"
     Token(UserInfoClaims("Bob_user_id_uuid", [k \in {"score"} |-> JFloat(1, 0)])),
     <<>>}                                    \* empty string

AccessTokens ==
    {Token(AccessClaims(AccessFields)),
     Token(AccessClaims(AccessFields \ {"scope"})),   \* required claim missing
     <<Header, Signature>>}                           \* no '.' at all

Actions ==
    {<<Ident("Action"), Sep, Quoted("view")>>,
     <<Ident("InvalidAction")>>}

\* "Folder::\"public_folder_id_uuid\"" as a JSON string
ResourceLiteral == JStr("Folder::\"public_folder_id_uuid\"")

Resources ==
    {ResourceLiteral,
     TypeAndId("Folder", "public_folder_id_uuid"),
     EntityJson("Folder", "private_folder_id_uuid"),
     TypeAndId("not a name", "x"),
     JInt(7)}

Contexts ==
    {JObj(NoExtra),
     JObj([k \in {"ip"} |-> JStr("10")]),
     JNull,
     JBool(TRUE),
     JInt(7),
     JStr("ip"),
     JArr(<<>>)}

AuthzInputRaws ==
    [id_token : IdTokens, userinfo_token : UserInfoTokens, access_token : AccessTokens,
     action : Actions, resource : Resources, context : Contexts]

\* the end-to-end example: each payload holds only the claims the entities
\* are built from
ExampleInput ==
    [id_token |-> Token(JObj([k \in {"jti"} |-> JStr("t1")])),
     userinfo_token |->
         Token(JObj([k \in {"inum", "sub"} |->
                       IF k = "inum" THEN JStr("Bob_user_id_uuid") ELSE JStr("bob")])),
     access_token |->
         Token(JObj([k \in {"aud", "client_id"} |->
                       IF k = "aud" THEN JStr("app1") ELSE JStr("c1")])),
     action |-> <<Ident("Action"), Sep, Quoted("view")>>,
     resource |-> TypeAndId("Folder", "public_folder_id_uuid"),
     context |-> JObj(NoExtra)]

\* the id-token jti, the userinfo inum and the access-token aud and client_id
\* are all the same string
SameIdInput ==
    [id_token |-> Token(JObj([IdClaims.o EXCEPT !["jti"] = JStr("same")])),
     userinfo_token |-> Token(UserInfoClaims("same", NoExtra)),
     access_token |->
         Token(JObj([AccessClaims(AccessFields).o EXCEPT
                        !["aud"] = JStr("same"), !["client_id"] = JStr("same")])),
     action |-> <<Ident("Action"), Sep, Quoted("view")>>,
     resource |-> TypeAndId("Folder", "public_folder_id_uuid"),
     context |-> JObj(NoExtra)]

HandleInputs == AuthzInputRaws \cup {ExampleInput, SameIdInput}

\* the text handed to handle_raw_input: the document of an AuthzInputRaw, a
\* document with a field left out, or text that is not JSON
Document(in) == [json |-> TRUE, has |-> InputFields, doc |-> in]

RawDocuments ==
    {Document(in) : in \in {x \in AuthzInputRaws :
                               /\ x.id_token = Token(IdClaims)
                               /\ x.access_token = Token(AccessClaims(AccessFields))
                               /\ x.resource = TypeAndId("Folder", "public_folder_id_uuid")
                               /\ x.context = JObj(NoExtra)}}
      \cup {[json |-> TRUE, has |-> InputFields \ {f}, doc |-> in] :
                f \in {"context"}, in \in {CHOOSE x \in AuthzInputRaws : TRUE}}
      \cup {[json |-> FALSE, has |-> {}, doc |-> in] :
                in \in {CHOOSE x \in AuthzInputRaws : TRUE}}

\* the arguments of check() in test_valid_check
DemoCheckArgs ==
    [principal_str |-> <<Ident("User"), Sep, Quoted("Bob_user_id_uuid")>>,
     action_str |-> <<Ident("Action"), Sep, Quoted("view")>>,
     resource_str |-> <<Ident("Folder"), Sep, Quoted("public_folder_id_uuid")>>,
     context_json_str |-> <<Json(JObj(NoExtra))>>,
     policies_str |-> DemoPolicies,
     entities_json_str |-> DemoEntitiesJson]

-----------------------------------------------------------------------------
(* State machine: calls on one Authz instance *)

Calls == 1..NumCalls

Self == [app_name |-> app_name, jwt_dec |-> jwt_dec,
         policy |-> policy, entities |-> entities]

EmptyFrame ==
    [decoded_input |-> None, action |-> None, resource |-> None,
     jwt_entities |-> None, entities |-> None, context |-> None, request |-> None]

\* the state after Authz::new(config) returned Ok
InitAuthz ==
    /\ config \in Configs
    /\ Authz_new(config).ok
    /\ app_name = Authz_new(config).v.app_name
    /\ jwt_dec = Authz_new(config).v.jwt_dec
    /\ policy = Authz_new(config).v.policy
    /\ entities = Authz_new(config).v.entities
    /\ pc = [c \in Calls |-> "idle"]
    /\ input = [c \in Calls |-> None]
    /\ frame = [c \in Calls |-> EmptyFrame]
    /\ result = [c \in Calls |-> None]
    /\ evalLog = [c \in Calls |-> <<>>]
    /\ stageLog = [c \in Calls |-> <<>>]
    /\ created = Some(Authz_new(config))

DecodeIdle == jwt = <<>> /\ target = "IdToken" /\ decoded = None

ConvertIdle ==
    extraValue = JNull /\ userInum = "" /\ converted = None /\ userEntity = None

CheckIdle == checkArgs = DemoCheckArgs /\ checkResult = None

HarnessIdle == DecodeIdle /\ ConvertIdle /\ CheckIdle

Init == InitAuthz /\ HarnessIdle

Quiet(c) == \A d \in Calls \ {c} : pc[d] = "idle"

\* what a finished call leaves behind
Finish(c, in, out) ==
    /\ pc' = [pc EXCEPT ![c] = "done"]
    /\ input' = [input EXCEPT ![c] = Some(in)]
    /\ result' = [result EXCEPT ![c] = Some(out.ret)]
    /\ evalLog' = [evalLog EXCEPT ![c] = out.evals]
    /\ stageLog' = [stageLog EXCEPT ![c] = out.stages]
    /\ UNCHANGED <<config, app_name, jwt_dec, policy, entities, created, frame>>
    /\ UNCHANGED harnessVars

\* one whole call of Authz::handle_raw_input(data)
HandleRawInput(c) ==
    /\ pc[c] = "idle"
    /\ Quiet(c)
    /\ \E data \in RawDocuments :
          Finish(c, [api |-> "handle_raw_input", data |-> data],
                 handle_raw_input(Self, data))

\* one whole call of Authz::handle(input)
Handle(c) ==
    /\ pc[c] = "idle"
    /\ Quiet(c)
    /\ \E in \in HandleInputs :
          Finish(c, [api |-> "handle", in |-> in], handle(Self, in))

\* the caller drops the result; the slot is free for the next call
Return(c) ==
    /\ pc[c] = "done"
    /\ pc' = [pc EXCEPT ![c] = "idle"]
    /\ input' = [input EXCEPT ![c] = None]
    /\ frame' = [frame EXCEPT ![c] = EmptyFrame]
    /\ result' = [result EXCEPT ![c] = None]
    /\ evalLog' = [evalLog EXCEPT ![c] = <<>>]
    /\ stageLog' = [stageLog EXCEPT ![c] = <<>>]
    /\ UNCHANGED <<config, app_name, jwt_dec, policy, entities, created>>
    /\ UNCHANGED harnessVars

Next ==
    \/ \E c \in Calls : HandleRawInput(c)
    \/ \E c \in Calls : Handle(c)
    \/ \E c \in Calls : Return(c)

Spec == Init /\ [][Next]_vars

-----------------------------------------------------------------------------
(* Decoder harness: decode::<T>(jwt) over every short token string *)

\* claims that satisfy both the IdToken and the UserInfoToken schema
IdUserClaims ==
    JObj([k \in {"jti", "iss", "aud", "sub", "iat", "exp", "inum"} |->
            CASE k \in {"iat", "exp"} -> JInt(1)
              [] OTHER -> JStr("bob")])

\* the access claims with the scope written as one string
ScopeAsString ==
    JObj([k \in AccessFields |->
            IF k = "scope" THEN JStr("read") ELSE AccessClaims(AccessFields).o[k]])

HarnessChunks ==
    {Dot, Header,
     Json(JStr("bob")),
     Json(IdUserClaims),
     Json(AccessClaims(AccessFields)),
     Json(AccessClaims(AccessFields \ {"scope"})),
     Json(ScopeAsString)}

RECURSIVE Strings(_, _)
Strings(alphabet, n) ==
    IF n = 0 THEN {<<>>}
    ELSE LET shorter == Strings(alphabet, n - 1)
         IN  shorter \cup {Append(s, a) : s \in shorter, a \in alphabet}

InitDecode ==
    /\ jwt \in Strings(HarnessChunks, MaxTokenLen)
    /\ target \in Targets
    /\ decoded = None
    /\ ConvertIdle
    /\ CheckIdle
    /\ InitAuthz
    /\ config = CHOOSE cfg \in Configs : TRUE

Decode ==
    /\ ~decoded.some
    /\ decoded' = Some(decode_jwt_without_validation(target, jwt))
    /\ UNCHANGED <<jwt, target>>
    /\ UNCHANGED <<convertVars, checkVars>>
    /\ UNCHANGED authzVars

NextDecode == Decode

SpecDecode == InitDecode /\ [][NextDecode]_vars

-----------------------------------------------------------------------------
(* Conversion harness: json_to_expression and get_user_entity over JSON    *)
(* values of every kind, arrays of them and arrays of arrays               *)

ConvertAtoms ==
    {JNull, JBool(TRUE), JBool(FALSE),
     JInt(7), JInt(-1), JU64,
     JFloat(15, -1),          \* 1.5
     JFloat(10, -1),          \* 1.0
     JFloat(123456, -6),      \* 0.123456
     JFloat(1, 300),          \* 1e300
     JStr("a"),
     JObj(NoExtra),
     JObj([k \in {"k"} |-> JInt(7)])}

ElemAtoms ==
    {JNull, JInt(7), JFloat(15, -1), JFloat(10, -1), JStr("a"),
     JObj([k \in {"k"} |-> JInt(7)])}

InnerArrays ==
    {JArr(<<>>), JArr(<<JNull>>), JArr(<<JInt(7)>>),
     JArr(<<JObj([k \in {"k"} |-> JInt(7)]), JNull>>)}

JsonValues ==
    ConvertAtoms \cup {JArr(a) : a \in Strings(ElemAtoms \cup InnerArrays, MaxArrayLen)}

Inums == {"Bob_user_id_uuid", ""}

\* the userinfo token whose payload carries extraValue as the claim "claim"
UserInfoWithExtra ==
    FromStr("UserInfoToken",
            <<Json(UserInfoClaims(userInum, [k \in {"claim"} |-> extraValue]))>>).v

InitConvert ==
    /\ extraValue \in JsonValues
    /\ userInum \in Inums
    /\ converted = None
    /\ userEntity = None
    /\ DecodeIdle
    /\ CheckIdle
    /\ InitAuthz
    /\ config = CHOOSE cfg \in Configs : TRUE

Convert ==
    /\ ~converted.some
    /\ converted' = Some(json_to_expression(extraValue))
    /\ UNCHANGED <<extraValue, userInum, userEntity>>
    /\ UNCHANGED <<decodeVars, checkVars>>
    /\ UNCHANGED authzVars

GetUserEntity ==
    /\ ~userEntity.some
    /\ userEntity' = Some(get_user_entity(UserInfoWithExtra, {}))
    /\ UNCHANGED <<extraValue, userInum, converted>>
    /\ UNCHANGED <<decodeVars, checkVars>>
    /\ UNCHANGED authzVars

NextConvert == Convert \/ GetUserEntity

SpecConvert == InitConvert /\ [][NextConvert]_vars

-----------------------------------------------------------------------------
(* Check harness: check() over well-formed and ill-formed texts *)

InvalidPolicies == <<Txt("invalid policy syntax")>>
InvalidEntitiesJson == <<Txt("invalid entities json")>>

CheckArgs ==
    [principal_str : {<<Ident("User"), Sep, Quoted("Bob_user_id_uuid")>>,
                      <<Ident("User"), Sep, Quoted("Anna_user_id_uuid")>>,
                      <<Ident("InvalidPrincipal")>>},
     action_str : {<<Ident("Action"), Sep, Quoted("view")>>,
                   <<Ident("InvalidAction")>>},
     resource_str : {<<Ident("Folder"), Sep, Quoted("public_folder_id_uuid")>>,
                     <<Ident("Folder"), Sep, Quoted("private_folder_id_uuid")>>,
                     <<Ident("InvalidResource")>>},
     context_json_str : {<<Json(JObj(NoExtra))>>,
                         <<Txt("{invalid_json}")>>,
                         <<Json(JArr(<<>>))>>},
     policies_str : {DemoPolicies, InvalidPolicies},
     entities_json_str : {DemoEntitiesJson, InvalidEntitiesJson}]

InitCheck ==
    /\ checkArgs \in CheckArgs
    /\ checkResult = None
    /\ DecodeIdle
    /\ ConvertIdle
    /\ InitAuthz
    /\ config = CHOOSE cfg \in Configs : TRUE

Check ==
    /\ ~checkResult.some
    /\ checkResult' = Some(check(checkArgs))
    /\ UNCHANGED checkArgs
    /\ UNCHANGED <<decodeVars, convertVars>>
    /\ UNCHANGED authzVars

NextCheck == Check

SpecCheck == InitCheck /\ [][NextCheck]_vars

-----------------------------------------------------------------------------
(* Construction: Authz::new(config) on configurations that may not parse   *)

NewConfigs ==
    [app_name : {None, Some("Demo_App")},
     decoder : {"WithoutValidation", "WithValidation"},
     policies : {DemoPolicies, InvalidPolicies},
     default_entities_json : {DemoEntitiesJson, BobEntitiesJson, InvalidEntitiesJson}]

\* before Authz::new has run there is no instance to call
InitNew ==
    /\ config \in NewConfigs
    /\ created = None
    /\ app_name = None
    /\ jwt_dec = "WithoutValidation"
    /\ policy = {}
    /\ entities = {}
    /\ pc = [c \in Calls |-> "no_instance"]
    /\ input = [c \in Calls |-> None]
    /\ frame = [c \in Calls |-> EmptyFrame]
    /\ result = [c \in Calls |-> None]
    /\ evalLog = [c \in Calls |-> <<>>]
    /\ stageLog = [c \in Calls |-> <<>>]
    /\ HarnessIdle

\* Authz::new(config): Ok(Authz { .. }) or the error, and then no instance
New ==
    /\ ~created.some
    /\ created' = Some(Authz_new(config))
    /\ IF Authz_new(config).ok
       THEN /\ app_name' = Authz_new(config).v.app_name
            /\ jwt_dec' = Authz_new(config).v.jwt_dec
            /\ policy' = Authz_new(config).v.policy
            /\ entities' = Authz_new(config).v.entities
            /\ pc' = [c \in Calls |-> "idle"]
       ELSE UNCHANGED <<app_name, jwt_dec, policy, entities, pc>>
    /\ UNCHANGED <<config, input, frame, result, evalLog, stageLog>>
    /\ UNCHANGED harnessVars

NextNew ==
    \/ New
    \/ \E c \in Calls : HandleRawInput(c)
    \/ \E c \in Calls : Handle(c)
    \/ \E c \in Calls : Return(c)

SpecNew == InitNew /\ [][NextNew]_vars

-----------------------------------------------------------------------------
(* Concurrent calls: handle runs statement by statement, calls interleave *)

\* the demo input and the inputs that differ from it in one field, so that a
\* call can stop at every stage
DemoInput ==
    [id_token |-> Token(IdClaims),
     userinfo_token |-> Token(UserInfoClaims("Bob_user_id_uuid", NoExtra)),
     access_token |-> Token(AccessClaims(AccessFields)),
     action |-> <<Ident("Action"), Sep, Quoted("view")>>,
     resource |-> TypeAndId("Folder", "public_folder_id_uuid"),
     context |-> JObj(NoExtra)]

ConcInputs ==
    {DemoInput,
     [DemoInput EXCEPT !.id_token = <<Header>>],
     [DemoInput EXCEPT !.action = <<Ident("InvalidAction")>>],
     [DemoInput EXCEPT !.resource = JInt(7)],
     [DemoInput EXCEPT !.userinfo_token =
         Token(UserInfoClaims("Bob_user_id_uuid", [k \in {"score"} |-> JFloat(1, 0)]))],
     [DemoInput EXCEPT !.userinfo_token = Token(UserInfoClaims("bob", NoExtra))],
     [DemoInput EXCEPT !.context = JNull]}

ConcDocuments ==
    {[json |-> j, has |-> IF j THEN InputFields ELSE {}, doc |-> DemoInput] :
        j \in BOOLEAN}

\* the AuthzInputRaw a running call works on
InOf(c) == IF input[c].v.api = "handle" THEN input[c].v.in ELSE input[c].v.data.doc

Enter(c, stage) == stageLog' = [stageLog EXCEPT ![c] = Append(@, stage)]

\* the ? operator: return the error
Fail(c, e) ==
    /\ pc' = [pc EXCEPT ![c] = "done"]
    /\ result' = [result EXCEPT ![c] = Some(e)]
    /\ UNCHANGED <<frame, evalLog>>

Goto(c, next) ==
    /\ pc' = [pc EXCEPT ![c] = next]
    /\ UNCHANGED <<result, evalLog>>

Shared == <<config, app_name, jwt_dec, policy, entities, created>>

\* Authz::handle(input) is entered
CallHandle(c) ==
    /\ pc[c] = "idle"
    /\ pc' = [pc EXCEPT ![c] = "decode_tokens"]
    /\ \E in \in ConcInputs :
          input' = [input EXCEPT ![c] = Some([api |-> "handle", in |-> in])]
    /\ UNCHANGED <<frame, result, evalLog, stageLog>>
    /\ UNCHANGED Shared
    /\ UNCHANGED harnessVars

\* Authz::handle_raw_input(data): parse the document, then handle
CallRaw(c) ==
    /\ pc[c] = "idle"
    /\ \E data \in ConcDocuments :
          /\ input' = [input EXCEPT ![c] =
                          Some([api |-> "handle_raw_input", data |-> data])]
          /\ IF AuthzInputRaw_from_str(data).ok
             THEN Goto(c, "decode_tokens") /\ UNCHANGED frame
             ELSE Fail(c, Err(<<"InputJsonParse">>))
    /\ UNCHANGED stageLog
    /\ UNCHANGED Shared
    /\ UNCHANGED harnessVars

\* let decoded_input = input.decode_tokens(&self.jwt_dec)?;
DecodeTokens(c) ==
    /\ pc[c] = "decode_tokens"
    /\ Enter(c, "decode_tokens")
    /\ LET r == decode_tokens(InOf(c), jwt_dec)
       IN  IF r = Unwind THEN Fail(c, Unwind)
           ELSE IF ~r.ok THEN Fail(c, Err(<<"DecodeTokens">> \o r.err))
           ELSE /\ frame' = [frame EXCEPT ![c].decoded_input = Some(r.v)]
                /\ Goto(c, "action")
    /\ UNCHANGED <<input>>
    /\ UNCHANGED Shared
    /\ UNCHANGED harnessVars

\* let action = EntityUid::from_str(params.action.as_str()).map_err(Action)?;
ParseAction(c) ==
    /\ pc[c] = "action"
    /\ Enter(c, "action")
    /\ LET r == EntityUid_from_str(frame[c].decoded_input.v.chedar_params.action)
       IN  IF ~r.ok THEN Fail(c, Err(<<"Action">>))
           ELSE /\ frame' = [frame EXCEPT ![c].action = Some(r.v)]
                /\ Goto(c, "resource")
    /\ UNCHANGED <<input>>
    /\ UNCHANGED Shared
    /\ UNCHANGED harnessVars

\* let resource = EntityUid::from_json(params.resource).map_err(Resource)?;
ParseResource(c) ==
    /\ pc[c] = "resource"
    /\ Enter(c, "resource")
    /\ LET r == EntityUid_from_json(frame[c].decoded_input.v.chedar_params.resource)
       IN  IF ~r.ok THEN Fail(c, Err(<<"Resource", r.err>>))
           ELSE /\ frame' = [frame EXCEPT ![c].resource = Some(r.v)]
                /\ Goto(c, "entities")
    /\ UNCHANGED <<input>>
    /\ UNCHANGED Shared
    /\ UNCHANGED harnessVars

\* let jwt_entities = decoded_input.jwt.entities(self.app_name.as_deref())?;
SynthEntities(c) ==
    /\ pc[c] = "entities"
    /\ Enter(c, "entities")
    /\ LET r == JWTData_entities(frame[c].decoded_input.v.jwt, app_name)
       IN  IF ~r.ok THEN Fail(c, Err(<<"AuthzInputEntities">> \o r.err))
           ELSE /\ frame' = [frame EXCEPT ![c].jwt_entities = Some(r.v)]
                /\ Goto(c, "add_entities")
    /\ UNCHANGED <<input>>
    /\ UNCHANGED Shared
    /\ UNCHANGED harnessVars

\* a merge without the clone: the entities are added to the shared baseline
MergeEntitiesInPlace(c) ==
    /\ pc[c] = "add_entities"
    /\ Enter(c, "add_entities")
    /\ LET r == add_entities(entities, frame[c].jwt_entities.v.entities)
       IN  IF ~r.ok
           THEN Fail(c, Err(<<"AddEntities", r.err>>)) /\ UNCHANGED entities
           ELSE /\ frame' = [frame EXCEPT ![c].entities = Some(r.v)]
                /\ entities' = r.v
                /\ Goto(c, "context")
    /\ UNCHANGED <<input>>
    /\ UNCHANGED <<config, app_name, jwt_dec, policy, created>>
    /\ UNCHANGED harnessVars

\* let entities = self.entities.clone().add_entities(jwt_entities.entities, None)?;
MergeEntities(c) ==
    /\ pc[c] = "add_entities"
    /\ Enter(c, "add_entities")
    /\ LET r == add_entities(entities, frame[c].jwt_entities.v.entities)
       IN  IF ~r.ok THEN Fail(c, Err(<<"AddEntities", r.err>>))
           ELSE /\ frame' = [frame EXCEPT ![c].entities = Some(r.v)]
                /\ Goto(c, "context")
    /\ UNCHANGED <<input>>
    /\ UNCHANGED Shared
    /\ UNCHANGED harnessVars

\* let context = Context::from_json_value(params.context, None).map_err(Context)?;
BuildContext(c) ==
    /\ pc[c] = "context"
    /\ Enter(c, "context")
    /\ LET r == Context_from_json_value(frame[c].decoded_input.v.chedar_params.context)
       IN  IF ~r.ok THEN Fail(c, Err(<<"Context">>))
           ELSE /\ frame' = [frame EXCEPT ![c].context = Some(r.v)]
                /\ Goto(c, "request")
    /\ UNCHANGED <<input>>
    /\ UNCHANGED Shared
    /\ UNCHANGED harnessVars

\* let request = Request::new(Some(principal), Some(action), Some(resource),
\*                            context, None).map_err(Request)?;
BuildRequest(c) ==
    /\ pc[c] = "request"
    /\ Enter(c, "request")
    /\ LET principal == frame[c].jwt_entities.v.user_entity_uid
           r == Request_new(principal, frame[c].action.v, frame[c].resource.v,
                            frame[c].context.v)
       IN  IF ~r.ok THEN Fail(c, Err(<<"Request">>))
           ELSE /\ frame' = [frame EXCEPT ![c].request = Some(r.v)]
                /\ Goto(c, "is_authorized")
    /\ UNCHANGED <<input>>
    /\ UNCHANGED Shared
    /\ UNCHANGED harnessVars

\* let decision = authorizer.is_authorized(&request, &self.policy, &entities);
\* Ok(decision)
Evaluate(c) ==
    /\ pc[c] = "is_authorized"
    /\ Enter(c, "is_authorized")
    /\ evalLog' = [evalLog EXCEPT ![c] =
                      Append(@, [request |-> frame[c].request.v,
                                 policy |-> policy,
                                 entities |-> frame[c].entities.v])]
    /\ result' = [result EXCEPT ![c] =
                     Some(Ok(is_authorized(frame[c].request.v, policy,
                                           frame[c].entities.v)))]
    /\ pc' = [pc EXCEPT ![c] = "done"]
    /\ UNCHANGED <<input, frame>>
    /\ UNCHANGED Shared
    /\ UNCHANGED harnessVars

NextConc ==
    \/ \E c \in Calls : CallHandle(c)
    \/ \E c \in Calls : CallRaw(c)
    \/ \E c \in Calls : DecodeTokens(c)
    \/ \E c \in Calls : ParseAction(c)
    \/ \E c \in Calls : ParseResource(c)
    \/ \E c \in Calls : SynthEntities(c)
    \/ \E c \in Calls : MergeEntities(c)
    \/ \E c \in Calls : BuildContext(c)
    \/ \E c \in Calls : BuildRequest(c)
    \/ \E c \in Calls : Evaluate(c)
    \/ \E c \in Calls : Return(c)

\* the instance is configured with an application name, as the demo is
InitConc == Init /\ config.app_name.some

SpecConc == InitConc /\ [][NextConc]_vars

-----------------------------------------------------------------------------
(* Facts about a call, read off its input alone *)

Done(c) == pc[c] = "done"
Ret(c) == result[c].v

\* the call got as far as handle
HandleRan(c) ==
    /\ Done(c)
    /\ input[c].v.api = "handle_raw_input" => AuthzInputRaw_from_str(input[c].v.data).ok

\* the instance as Authz::new(config) built it
Built == Authz_new(config).v

TokenOf(in, t) ==
    CASE t = "IdToken" -> in.id_token
      [] t = "UserInfoToken" -> in.userinfo_token
      [] t = "AccessToken" -> in.access_token

TokenDecodes(in, t) == decode_jwt_without_validation(t, TokenOf(in, t)).ok

DecodeOk(in) == jwt_dec = "WithoutValidation" /\ \A t \in Targets : TokenDecodes(in, t)

ClaimsOf(in) ==
    [id_token |-> decode_jwt_without_validation("IdToken", in.id_token).v,
     userinfo_token |-> decode_jwt_without_validation("UserInfoToken", in.userinfo_token).v,
     access_token |-> decode_jwt_without_validation("AccessToken", in.access_token).v]

ActionOk(in) == EntityUid_from_str(in.action).ok
ResourceOk(in) == EntityUid_from_json(in.resource).ok
SynthOk(in) == JWTData_entities(ClaimsOf(in), app_name).ok
Synthesized(in) == JWTData_entities(ClaimsOf(in), app_name).v.entities
MergeOk(in) == add_entities(Built.entities, Synthesized(in)).ok
ContextOk(in) == Context_from_json_value(in.context).ok

AllStagesSucceed(in) ==
    /\ DecodeOk(in)
    /\ ActionOk(in)
    /\ ResourceOk(in)
    /\ SynthOk(in)
    /\ MergeOk(in)
    /\ ContextOk(in)

HandleErrors ==
    {"InputJsonParse", "DecodeTokens", "Action", "Resource",
     "AuthzInputEntities", "AddEntities", "Context", "Request"}

IsHandleError(r) == ~r.ok /\ r.err[1] \in HandleErrors

-----------------------------------------------------------------------------
(* Claims *)

\* C1: in one handle call the evaluator is invoked exactly once, and Ok(decision)
\* is returned, when every stage succeeds; it is invoked zero times and no
\* decision is returned when any stage fails, and a stage that returns an
\* error makes handle return a HandleError (an ill-formed action never reaches
\* the evaluator).
C1_EvaluatorOnceIffAllStagesSucceed ==
    \A c \in Calls : HandleRan(c) =>
        LET in == InOf(c)
        IN  /\ AllStagesSucceed(in) =>
                 /\ Len(evalLog[c]) = 1
                 /\ Ret(c).ok
                 /\ Ret(c).v.decision \in {"Allow", "Deny"}
            /\ ~AllStagesSucceed(in) =>
                 /\ Len(evalLog[c]) = 0
                 /\ ~Ret(c).ok
                 /\ jwt_dec = "WithoutValidation" => IsHandleError(Ret(c))
            /\ ~ActionOk(in) => Len(evalLog[c]) = 0

\* an ill-formed action was handled and one well-formed input was evaluated
C1_Witness ==
    \E c \in Calls :
        /\ HandleRan(c)
        /\ jwt_dec = "WithoutValidation"
        /\ DecodeOk(InOf(c))
        /\ ~ActionOk(InOf(c))
        /\ Ret(c) = Err(<<"Action">>)
        /\ evalLog[c] = <<>>

\* C2: after any calls, at any stage, succeeding or failing, the baseline
\* entity set and the policy set are those Authz::new built.
C2_BaselineAndPolicyUnchanged ==
    /\ entities = Built.entities
    /\ policy = Built.policy
    /\ app_name = Built.app_name
    /\ jwt_dec = Built.jwt_dec

\* a call holds a merged graph that is larger than the baseline
C2_Witness ==
    \E c \in Calls :
        /\ Done(c)
        /\ Ret(c).ok
        /\ frame[c].entities.some
        /\ frame[c].entities.v # entities
        /\ entities \subseteq frame[c].entities.v

\* C3: under any interleaving each call hands the evaluator exactly
\* baseline \cup (the entities synthesized from its own tokens), and returns
\* what it returns when run alone.
C3_CallsAreIsolated ==
    \A c \in Calls : HandleRan(c) =>
        /\ Ret(c) = handle(Built, InOf(c)).ret
        /\ evalLog[c] = handle(Built, InOf(c)).evals
        /\ evalLog[c] # <<>> =>
              evalLog[c][1].entities = Built.entities \cup Range(Synthesized(InOf(c)))

\* one call has finished with a decision while another call is between its
\* merge and its evaluation, holding a different graph
C3_Witness ==
    \E c, d \in Calls :
        /\ c # d
        /\ Done(c)
        /\ Ret(c).ok
        /\ pc[d] \in {"context", "request", "is_authorized"}
        /\ frame[d].entities.v # evalLog[c][1].entities

\* a synthesized entity has the identity of a baseline entity or of another
\* synthesized entity
Collides(in) ==
    LET list == Synthesized(in)
    IN  \/ \E i \in 1..Len(list) : list[i].uid \in Uids(Built.entities)
        \/ \E i, k \in 1..Len(list) : i # k /\ list[i].uid = list[k].uid

\* C4: an identity collision makes the merge fail with AddEntities, whether
\* the attributes are equal or not; nothing is overwritten, nothing is decided.
C4_CollisionIsAlwaysAnError ==
    \A c \in Calls : HandleRan(c) =>
        LET in == InOf(c)
        IN  (DecodeOk(in) /\ ActionOk(in) /\ ResourceOk(in) /\ SynthOk(in) /\ Collides(in))
               => /\ Ret(c) = Err(<<"AddEntities", "Duplicate">>)
                  /\ evalLog[c] = <<>>
                  /\ entities = Built.entities

\* the synthesized User entity is equal, attributes included, to the baseline
\* entity it collides with, and the call failed
C4_Witness ==
    \E c \in Calls :
        /\ HandleRan(c)
        /\ DecodeOk(InOf(c)) /\ ActionOk(InOf(c)) /\ ResourceOk(InOf(c)) /\ SynthOk(InOf(c))
        /\ Synthesized(InOf(c))[2] \in Built.entities
        /\ Ret(c) = Err(<<"AddEntities", "Duplicate">>)


\* the number of '.'-separated segments: one more than the number of dots
Segments(token) == 1 + Cardinality({i \in 1..Len(token) : token[i] = Dot})

\* C5: decode_jwt_without_validation fails with MalformedJWT for every token
\* with fewer than two segments and for no token with two or more.
C5_MalformedIffFewerThanTwoSegments ==
    decoded.some =>
        ((~decoded.v.ok /\ decoded.v.err = "MalformedJWT") <=> Segments(jwt) < 2)

\* a token without a dot was refused as malformed
C5_Witness ==
    /\ decoded.some
    /\ Len(jwt) > 0
    /\ Segments(jwt) < 2
    /\ decoded.v = Err("MalformedJWT")

\* the chunks between the first dot and the next dot (or the end)
SecondSegment(token) ==
    LET first == CHOOSE i \in 1..Len(token) :
                     token[i] = Dot /\ \A k \in 1..(i-1) : token[k] # Dot
        later == {i \in (first+1)..Len(token) : token[i] = Dot}
        stop == IF later = {} THEN Len(token) + 1
                ELSE CHOOSE i \in later : \A k \in later : i <= k
    IN  SubSeq(token, first + 1, stop - 1)

\* the JSON objects among the harness payloads that hold every required
\* claim of the schema with the required type
Accepted(t) ==
    CASE t = "IdToken" -> {IdUserClaims}
      [] t = "UserInfoToken" -> {IdUserClaims}
      [] t = "AccessToken" -> {AccessClaims(AccessFields)}

FirstSegments == {<<>>, <<Header>>, <<Json(IdUserClaims)>>}
LaterSegments == {<<>>, <<Dot>>, <<Dot, Signature>>, <<Dot, Json(IdUserClaims)>>,
                  <<Dot, Json(AccessClaims(AccessFields)), Dot, Header>>}

\* C6: with two or more segments the result depends only on the second
\* segment, read as JSON text as it stands: ClaimParseError unless it is a
\* JSON object matching the schema, success otherwise, whatever the other
\* segments hold.
C6_OnlySecondSegmentAsPlainJson ==
    (decoded.some /\ Segments(jwt) >= 2) =>
        LET seg == SecondSegment(jwt)
            matches == Len(seg) = 1 /\ seg[1].ck = "json" /\ seg[1].j \in Accepted(target)
        IN  /\ decoded.v.ok <=> matches
            /\ ~matches => decoded.v = Err("UnableToParseBase64AsJson")
            /\ \A pre \in FirstSegments, post \in LaterSegments :
                  decode_jwt_without_validation(target, pre \o <<Dot>> \o seg \o post)
                      = decoded.v

\* a token decoded although its first and its third segment are not what the
\* payload is
C6_Witness ==
    /\ decoded.some
    /\ decoded.v.ok
    /\ Segments(jwt) >= 3
    /\ jwt[Len(jwt)] # jwt[1]
    /\ Len(Split(jwt)[3]) = 1

\* the user-id claim as written in the payload of the userinfo token
InumOf(in) == SecondSegment(in.userinfo_token)[1].j.o["inum"].s

\* C7: the principal of every request handed to the evaluator is (User, inum
\* of the userinfo token of the same call), never a Client, Application or
\* IdToken identity.
C7_PrincipalIsTheSynthesizedUser ==
    \A c \in Calls : (HandleRan(c) /\ evalLog[c] # <<>>) =>
        \A i \in 1..Len(evalLog[c]) :
            /\ evalLog[c][i].request.principal = Uid(<<"User">>, InumOf(InOf(c)))
            /\ evalLog[c][i].request.principal \in Uids(Range(Synthesized(InOf(c))))
            /\ evalLog[c][i].request.principal[ "type" ] \notin
                   {<<"Client">>, <<"Application">>, <<"IdToken">>}

\* a request was evaluated for a call that also synthesized an Application
C7_Witness ==
    \E c \in Calls :
        /\ HandleRan(c)
        /\ evalLog[c] # <<>>
        /\ app_name.some
        /\ evalLog[c][1].request.principal = Uid(<<"User">>, "Bob_user_id_uuid")

\* the entity constructor a synthesis tag names fails on the claims of in
ConstructorFails(tag, in) ==
    LET data == ClaimsOf(in)
    IN  CASE tag = "IdTokenEntity" -> ~get_token_entity(data.id_token).ok
          [] tag = "UserEntity" -> ~get_user_entity(data.userinfo_token, {}).ok
          [] tag = "AccessTokenEntity" -> ~get_client_entity(data.access_token).ok
          [] tag = "ApplicationEntity" ->
                /\ app_name.some
                /\ ~get_application_entity(data.access_token, app_name.v,
                                           get_client_entity(data.access_token).v.uid).ok
          [] OTHER -> FALSE

\* C8: a decode failure carries the tag of a token string that fails to
\* decode, a synthesis failure the tag of an entity constructor that fails;
\* a failure of the access token alone is tagged AccessToken.
C8_FailureTagNamesWhatFailed ==
    \A c \in Calls : (HandleRan(c) /\ ~Ret(c).ok) =>
        LET in == InOf(c)
            e == Ret(c).err
        IN  /\ e[1] = "DecodeTokens" =>
                  /\ e[2] \in Targets
                  /\ ~TokenDecodes(in, e[2])
                  /\ e[3] = decode_jwt_without_validation(e[2], TokenOf(in, e[2])).err
            /\ e[1] = "AuthzInputEntities" => ConstructorFails(e[2], in)
            /\ (/\ jwt_dec = "WithoutValidation"
                /\ TokenDecodes(in, "IdToken")
                /\ TokenDecodes(in, "UserInfoToken")
                /\ ~TokenDecodes(in, "AccessToken"))
                  => (e[1] = "DecodeTokens" /\ e[2] = "AccessToken")

\* a call failed on its access token alone
C8_Witness ==
    \E c \in Calls :
        /\ HandleRan(c)
        /\ TokenDecodes(InOf(c), "IdToken")
        /\ TokenDecodes(InOf(c), "UserInfoToken")
        /\ Ret(c) = Err(<<"DecodeTokens", "AccessToken", "UnableToParseBase64AsJson">>)

\* C9: for every input and every decoding strategy handle_raw_input returns
\* Ok(decision) or one HandleError; it never panics and enters no stage twice.
C9_ReturnsOkOrHandleError ==
    \A c \in Calls : Done(c) =>
        /\ Ret(c).ok \/ IsHandleError(Ret(c))
        /\ \A i, k \in 1..Len(stageLog[c]) : i # k => stageLog[c][i] # stageLog[c][k]

\* JSON strings that hold a well-formed identity literal
IdentityLiterals == {"Folder::\"public_folder_id_uuid\""}

\* the two shapes of a resource the input document may use
WellFormedResource(j) ==
    \/ j.kind = "str" /\ j.s \in IdentityLiterals
    \/ IsTypeAndId(j) /\ j.o["type"].s \notin NotAName
    \/ /\ j.kind = "obj"
       /\ DOMAIN j.o = {"__entity"}
       /\ IsTypeAndId(j.o["__entity"])
       /\ j.o["__entity"].o["type"].s \notin NotAName

\* C10: handle accepts the resource as a JSON string holding an identity
\* literal and as a {type, id} object, and fails with HandleError::Resource
\* exactly when the value is neither.
C10_ResourceAcceptedInBothShapes ==
    \A c \in Calls : (HandleRan(c) /\ DecodeOk(InOf(c)) /\ ActionOk(InOf(c))) =>
        ((~Ret(c).ok /\ Ret(c).err[1] = "Resource") <=> ~WellFormedResource(InOf(c).resource))

ScalarLiteral(j) ==
    CASE j.kind = "bool" -> XBool(j.b)
      [] j.kind = "str" -> XStr(j.s)
      [] j.kind = "num" /\ ~j.f /\ j.e = 0 -> XLong(j.m)
      [] j.kind = "num" -> XDecimal(F64ToString(j.m, j.e).m, F64ToString(j.m, j.e).e)

Omitted(j) == j.kind \in {"null", "obj"}

\* the set literal an array gives, two levels deep, written without the
\* conversion: omitted elements dropped, objects never opened
SetOf(a) ==
    XSet({IF el.kind = "arr"
          THEN XSet({ScalarLiteral(x) : x \in {y \in Range(el.a) : y.kind # "arr" /\ ~Omitted(y)}})
          ELSE ScalarLiteral(el) :
             el \in {y \in Range(a) : ~Omitted(y)}})

C13_ExtraClaimNeverFailsSynthesis ==
    userEntity.some =>
        /\ ~userEntity.v.ok => ~EntityUid_from_json(EntityJson("User", userInum)).ok
        /\ userEntity.v.ok =>
              /\ userEntity.v.v.uid = Uid(<<"User">>, userInum)
              /\ "claim" \in DOMAIN userEntity.v.v.attrs <=> ~Omitted(extraValue)

RawCall(c) == Done(c) /\ input[c].v.api = "handle_raw_input"

\* C14: two handle_raw_input calls on one instance with the same document
\* return the same result (decision and diagnostics, or error), hand the
\* evaluator the same request and graph, and synthesize the same entities,
\* whatever other calls ran before or between them.
C14_SameDocumentSameResult ==
    \A c, d \in Calls :
        (RawCall(c) /\ RawCall(d) /\ input[c].v.data = input[d].v.data) =>
            /\ result[c] = result[d]
            /\ evalLog[c] = evalLog[d]
            /\ frame[c].jwt_entities = frame[d].jwt_entities

\* two calls with the demo document have both returned Allow, having
\* synthesized the User entity
C14_Witness ==
    \E c, d \in Calls :
        /\ c # d
        /\ RawCall(c) /\ RawCall(d)
        /\ input[c].v.data = input[d].v.data
        /\ Ret(c).ok /\ Ret(c).v.decision = "Allow"
        /\ Ret(d).ok
        /\ frame[d].jwt_entities.v.entities[2].uid = Uid(<<"User">>, "Bob_user_id_uuid")

\* C15: with Folder "public_folder_id_uuid" in the baseline and the policy
\* that permits a User to view a public folder, handle on the example input
\* returns Allow; it fails at no stage.
C15_ExampleInputIsAllowed ==
    \A c \in Calls :
        (/\ HandleRan(c)
         /\ jwt_dec = "WithoutValidation"
         /\ InOf(c) = ExampleInput
         /\ Uid(<<"Folder">>, "public_folder_id_uuid") \in Uids(entities))
            => /\ Ret(c).ok
               /\ Ret(c).v.decision = "Allow"

\* the error variants of the arguments of check() that are ill formed, told
\* from the texts themselves
IllFormed(args) ==
    {v \in {"Principal", "Action", "Resource", "ContextJsonParse", "Context",
            "PolicySet", "Entities"} :
        CASE v = "Principal" -> args.principal_str = <<Ident("InvalidPrincipal")>>
          [] v = "Action" -> args.action_str = <<Ident("InvalidAction")>>
          [] v = "Resource" -> args.resource_str = <<Ident("InvalidResource")>>
          [] v = "ContextJsonParse" -> args.context_json_str = <<Txt("{invalid_json}")>>
          [] v = "Context" -> args.context_json_str = <<Json(JArr(<<>>))>>
          [] v = "PolicySet" -> args.policies_str = InvalidPolicies
          [] v = "Entities" -> args.entities_json_str = InvalidEntitiesJson}

\* the arguments of check() in test_check_forbidden_action
AnnaCheckArgs ==
    [DemoCheckArgs EXCEPT
        !.principal_str = <<Ident("User"), Sep, Quoted("Anna_user_id_uuid")>>,
        !.resource_str = <<Ident("Folder"), Sep, Quoted("private_folder_id_uuid")>>]

\* C16: check() with well-formed arguments returns Ok with a decision; with
\* the demo policy and entities it is Allow for User "Bob_user_id_uuid"
\* viewing Folder "public_folder_id_uuid" and Deny, not an error, for User
\* "Anna_user_id_uuid" viewing Folder "private_folder_id_uuid".
C16_WellFormedCheckDecides ==
    checkResult.some =>
        /\ IllFormed(checkArgs) = {} =>
              /\ checkResult.v.ok
              /\ checkResult.v.v.decision \in {"Allow", "Deny"}
        /\ checkArgs = DemoCheckArgs =>
              checkResult.v.ok /\ checkResult.v.v.decision = "Allow"
        /\ checkArgs = AnnaCheckArgs =>
              /\ checkResult.v.ok
              /\ checkResult.v.v.decision = "Deny"
              /\ checkResult.v.v.reason = {}

\* the request of Anna for the private folder was denied
C16_Witness ==
    /\ checkResult.some
    /\ checkArgs = AnnaCheckArgs
    /\ checkResult.v.ok
    /\ checkResult.v.v.decision = "Deny"

CheckOrder ==
    <<"Principal", "Action", "Resource", "ContextJsonParse", "Context", "Request",
      "PolicySet", "Entities">>

\* the first variant, in the order of CheckOrder, among those of set
FirstOf(set) ==
    CheckOrder[CHOOSE i \in 1..Len(CheckOrder) :
                  /\ CheckOrder[i] \in set
                  /\ \A k \in 1..(i-1) : CheckOrder[k] \notin set]

\* C17: check() with an ill-formed argument returns the error variant of
\* that argument and no decision; with several, the first in the order
\* principal, action, resource, context, request, policy set, entities.
C17_FirstIllFormedArgumentIsReported ==
    (checkResult.some /\ IllFormed(checkArgs) # {}) =>
        /\ ~checkResult.v.ok
        /\ checkResult.v = Err(<<FirstOf(IllFormed(checkArgs))>>)
        /\ Cardinality(IllFormed(checkArgs)) = 1 =>
              checkResult.v.err[1] \in IllFormed(checkArgs)

\* the resource, the policy text and the entities were all ill formed and
\* the resource was reported
C17_Witness ==
    /\ checkResult.some
    /\ IllFormed(checkArgs) = {"Resource", "PolicySet", "Entities"}
    /\ checkResult.v = Err(<<"Resource">>)

\* C18: Authz::new returns PolicySet when the policy text does not parse
\* (also when the entities are bad too), Entities when only the baseline
\* JSON does not parse, and then there is no instance: no call of handle
\* ever starts.  A call that ran did so on the parsed policy set and
\* baseline, and its error is never a policy-set or baseline parse error.
C18_StartupErrorsAreFatal ==
    /\ created.some =>
          /\ config.policies = InvalidPolicies => created.v = Err(<<"PolicySet">>)
          /\ (/\ config.policies # InvalidPolicies
              /\ config.default_entities_json = InvalidEntitiesJson)
                => created.v = Err(<<"Entities">>)
          /\ (/\ config.policies # InvalidPolicies
              /\ config.default_entities_json # InvalidEntitiesJson)
                => created.v.ok
    /\ (~created.some \/ ~created.v.ok) =>
          \A c \in Calls :
              /\ pc[c] = "no_instance"
              /\ result[c] = None
              /\ stageLog[c] = <<>>
              /\ evalLog[c] = <<>>
    /\ \A c \in Calls : Done(c) =>
          /\ created.some /\ created.v.ok
          /\ config.policies # InvalidPolicies
          /\ config.default_entities_json # InvalidEntitiesJson
          /\ policy = PolicySet_from_str(config.policies).v
          /\ entities = Entities_from_json_str(config.default_entities_json).v
          /\ ~Ret(c).ok => Ret(c).err[1] \notin {"PolicySet", "Entities"}

\* Authz::new ran on a configuration whose policy text and entities are both
\* bad and returned the policy-set error; no call can start
C18_Witness ==
    /\ created = Some(Err(<<"PolicySet">>))
    /\ config.policies = InvalidPolicies
    /\ config.default_entities_json = InvalidEntitiesJson
    /\ \A c \in Calls : ~ENABLED Handle(c)

\* the audience claim as written in the payload of the access token
AudOf(in) == SecondSegment(in.access_token)[1].j.o["aud"].s

TypesOf(list) == [i \in 1..Len(list) |-> list[i].uid.type]

\* C19: JWTData::entities yields [IdToken, User, Client, Application] when an
\* application name is configured and [IdToken, User, Client] when none is;
\* the Application is (Application, aud), its name is the configured name and
\* its client attribute is the identity of the Client (Client, aud) of the
\* same list, so in the merged graph the reference points at an entity.
C19_ApplicationIffNameConfigured ==
    \A c \in Calls : (HandleRan(c) /\ DecodeOk(InOf(c)) /\ SynthOk(InOf(c))) =>
        LET in == InOf(c)
            list == Synthesized(in)
        IN  /\ ~app_name.some =>
                  TypesOf(list) = <<<<"IdToken">>, <<"User">>, <<"Client">>>>
            /\ app_name.some =>
                  /\ TypesOf(list) =
                         <<<<"IdToken">>, <<"User">>, <<"Client">>, <<"Application">>>>
                  /\ list[3].uid = Uid(<<"Client">>, AudOf(in))
                  /\ list[4].uid = Uid(<<"Application">>, AudOf(in))
                  /\ DOMAIN list[4].attrs = {"name", "client"}
                  /\ list[4].attrs["name"] = XStr(app_name.v)
                  /\ list[4].attrs["client"] = XEuid(list[3].uid)
                  /\ list[4].parents = {}
            /\ evalLog[c] # <<>> =>
                  /\ Range(list) \subseteq evalLog[c][1].entities
                  /\ \A e \in evalLog[c][1].entities : \A k \in DOMAIN e.attrs :
                         e.attrs[k].x = "euid" =>
                             e.attrs[k].uid \in Uids(evalLog[c][1].entities)

\* a request was evaluated on a graph that holds the Application of the
\* configured name and the Client it refers to
C19_Witness ==
    \E c \in Calls :
        /\ HandleRan(c)
        /\ app_name = Some("Demo_App")
        /\ evalLog[c] # <<>>
        /\ \E a, cl \in evalLog[c][1].entities :
               /\ a.uid = Uid(<<"Application">>, "app1")
               /\ cl.uid = Uid(<<"Client">>, "app1")
               /\ a.attrs["client"] = XEuid(cl.uid)

\* the first token, in the order id token, userinfo token, access token,
\* that does not decode
FirstUndecoded(in) ==
    IF ~TokenDecodes(in, "IdToken") THEN "IdToken"
    ELSE IF ~TokenDecodes(in, "UserInfoToken") THEN "UserInfoToken"
    ELSE "AccessToken"

\* C20: when several stages of one handle call would fail, the error is that
\* of the earliest in the order decoding (id, userinfo, access token),
\* entity synthesis, merge, action, resource, context, request; an input
\* with a colliding identity and an ill-formed action gets the merge error.
C20_EarliestStageInPipelineOrder ==
    \A c \in Calls : (HandleRan(c) /\ jwt_dec = "WithoutValidation" /\ ~Ret(c).ok) =>
        LET in == InOf(c)
            e == Ret(c).err
        IN  IF ~DecodeOk(in) THEN e[1] = "DecodeTokens" /\ e[2] = FirstUndecoded(in)
            ELSE IF ~SynthOk(in) THEN e[1] = "AuthzInputEntities"
            ELSE IF ~MergeOk(in) THEN e[1] = "AddEntities"
            ELSE IF ~ActionOk(in) THEN e[1] = "Action"
            ELSE IF ~ResourceOk(in) THEN e[1] = "Resource"
            ELSE IF ~ContextOk(in) THEN e[1] = "Context"
            ELSE e[1] = "Request"

\* C21: whatever the claim values, also when jti, inum and aud are one
\* string, and with or without an application name, the entities of one
\* JWTData::entities call have pairwise distinct identities, one type tag
\* each; merged into an empty graph they never collide, and a merge that
\* fails does so on an identity the baseline holds.
C21_SynthesizedIdentitiesAreDistinct ==
    \A c \in Calls : (HandleRan(c) /\ DecodeOk(InOf(c)) /\ SynthOk(InOf(c))) =>
        LET in == InOf(c)
            list == Synthesized(in)
        IN  /\ \A i, k \in 1..Len(list) : i # k =>
                  /\ list[i].uid # list[k].uid
                  /\ list[i].uid.type # list[k].uid.type
            /\ Range(TypesOf(list)) \subseteq
                   {<<"IdToken">>, <<"User">>, <<"Client">>, <<"Application">>}
            /\ add_entities({}, list).ok
            /\ (~Ret(c).ok /\ Ret(c).err[1] = "AddEntities") =>
                   \E i \in 1..Len(list) : list[i].uid \in Uids(entities)
            /\ evalLog[c] # <<>> =>
                   Cardinality(evalLog[c][1].entities) = Cardinality(entities) + Len(list)

\* a call whose jti, inum and aud are the same string was evaluated on a
\* graph holding the four entities synthesized from them
C21_Witness ==
    \E c \in Calls :
        /\ HandleRan(c)
        /\ InOf(c) = SameIdInput
        /\ app_name.some
        /\ Ret(c).ok
        /\ {Uid(<<t>>, "same") : t \in {"IdToken", "User", "Client", "Application"}}
               \subseteq Uids(evalLog[c][1].entities)

====
